---- MODULE Spec2Model ----
\* Model of the TESTB<VA> simulation driver (sim/testb.h): the clock-edge
\* stepping protocol of tick(), the trace lifecycle (opentrace, pausetrace,
\* closetrace), the sticky done() flag and reset().
\*
\* The driver is single threaded and every method runs to completion, so each
\* method is one action.  What a method does internally (model evaluations,
\* trace samples, flushes, the sim_clk_tick hook) is recorded, in program
\* order, in `events`; the method last called, its arguments and its return
\* value are recorded in `last`.
\*
\* m_time_ps is a uint64_t.  The tick bound keeps it below 2^31, far from the
\* 2^64 wrap-around, so the arithmetic below is exact integer arithmetic.
EXTENDS Integers, Sequences, FiniteSets, TLC

\* ---------------------------------------------------------------- bounds
MaxTicks == 3
MaxOpens == 2
Names == {"a", "b"}
Depths == {1, 99}

\* ------------------------------------------------------ program constants
Q == 6944
H1 == 13888
H2 == 13889
RegisteredDepth == 99
DefaultDepth == 99
NULL == 0

Period == H1 + H2

VARIABLES
  m_core,          \* 1 while the model instance is allocated, NULL once deleted
  m_changed,
  m_trace,         \* NULL or the index in heap of the sink the driver points to
  m_done,
  m_paused_trace,
  m_time_ps,
  i_clk,           \* m_core->i_clk
  i_reset,         \* m_core->i_reset
  i_other,         \* any other input of the model, poked by the caller
  gotFinish,       \* Verilated::gotFinish(), the process-wide termination signal
  heap,            \* every TRACECLASS object ever allocated with new
  events,          \* what the last method did, in program order
  last,            \* the last method called, its arguments and return value
  nticks,          \* number of tick() invocations so far
  run,             \* the current run of consecutive tick() calls
  everFinish,      \* the termination signal has been raised at some time
  doneTrue         \* some call of done() has returned true

vars == <<m_core, m_changed, m_trace, m_done, m_paused_trace, m_time_ps,
          i_clk, i_reset, i_other, gotFinish, heap, events, last, nticks,
          run, everFinish, doneTrue>>

\* ------------------------------------------------------------ trace sink
\* A TRACECLASS object: the file it is bound to, the hierarchy depth it was
\* registered with, whether the file is open, whether the object was deleted,
\* the timestamps dumped to it and how many of them have been flushed.
NewSink(vcdname, depth) ==
  [name |-> vcdname, depth |-> depth, isOpen |-> TRUE, freed |-> FALSE,
   samples |-> <<>>, nflushed |-> 0]

Ev(k, s, ts) == [k |-> k, clk |-> s.clk, rst |-> s.rst, time |-> s.time, ts |-> ts]

\* m_core->eval()
EvalTwice(s) ==
  [s EXCEPT !.ev = Append(Append(@, Ev("eval", s, s.time)), Ev("eval", s, s.time))]
Eval(s) == [s EXCEPT !.ev = Append(@, Ev("eval", s, s.time))]

\* m_trace->dump(ts)
Dump(s, tr, ts) ==
  [s EXCEPT !.heap[tr].samples = Append(@, ts),
            !.ev = Append(@, Ev("dump", s, ts))]

\* m_trace->flush()
Flush(s, tr) ==
  [s EXCEPT !.heap[tr].nflushed = Len(s.heap[tr].samples),
            !.ev = Append(@, Ev("flush", s, s.time))]

\* the condition `m_trace && !m_paused_trace`
TracingIgnoresPause(tr, paused) == tr # NULL
Tracing(tr, paused) == tr # NULL /\ ~paused

PreEdgeStampNoOffset(t) == t
PreEdgeStamp(t) == t + Q

RisingTime(t) == t + H1

FallingTimeShort(t) == t + H1
FallingTime(t) == t + H2

\* sim_clk_tick(), base implementation
sim_clk_tick_keeps_changed(s) ==
  [s EXCEPT !.ev = Append(@, Ev("hook", s, s.time))]
sim_clk_tick(s) ==
  [s EXCEPT !.changed = FALSE, !.ev = Append(@, Ev("hook", s, s.time))]

\* tick() that does not drive the clock low again
TickBodyClockStaysHigh(s, tr, paused) ==
  LET e1 == Eval(s)
      d1 == IF Tracing(tr, paused) THEN Dump(e1, tr, PreEdgeStamp(e1.time)) ELSE e1
      r  == [d1 EXCEPT !.time = RisingTime(@), !.clk = 1]
      e2 == Eval(r)
      d2 == IF Tracing(tr, paused) THEN Flush(Dump(e2, tr, e2.time), tr) ELSE e2
      f  == [d2 EXCEPT !.time = FallingTime(@)]
      e3 == Eval(f)
      d3 == IF Tracing(tr, paused) THEN Dump(e3, tr, e3.time) ELSE e3
  IN  sim_clk_tick([d3 EXCEPT !.nticks = @ + 1])

\* tick() with the flush after the falling-edge sample
TickBodyFlushLast(s, tr, paused) ==
  LET e1 == Eval(s)
      d1 == IF Tracing(tr, paused) THEN Dump(e1, tr, PreEdgeStamp(e1.time)) ELSE e1
      r  == [d1 EXCEPT !.time = RisingTime(@), !.clk = 1]
      e2 == Eval(r)
      d2 == IF Tracing(tr, paused) THEN Dump(e2, tr, e2.time) ELSE e2
      f  == [d2 EXCEPT !.clk = 0, !.time = FallingTime(@)]
      e3 == Eval(f)
      d3 == IF Tracing(tr, paused) THEN Flush(Dump(e3, tr, e3.time), tr) ELSE e3
  IN  sim_clk_tick([d3 EXCEPT !.nticks = @ + 1])

\* tick() with the pre-edge sample taken before the first evaluation
TickBodySampleFirst(s, tr, paused) ==
  LET d1 == IF Tracing(tr, paused) THEN Dump(s, tr, PreEdgeStamp(s.time)) ELSE s
      e1 == Eval(d1)
      r  == [e1 EXCEPT !.time = RisingTime(@), !.clk = 1]
      e2 == Eval(r)
      d2 == IF Tracing(tr, paused) THEN Flush(Dump(e2, tr, e2.time), tr) ELSE e2
      f  == [d2 EXCEPT !.clk = 0, !.time = FallingTime(@)]
      e3 == Eval(f)
      d3 == IF Tracing(tr, paused) THEN Dump(e3, tr, e3.time) ELSE e3
  IN  sim_clk_tick([d3 EXCEPT !.nticks = @ + 1])

\* tick()
TickBody(s, tr, paused) ==
  LET e1 == Eval(s)
      d1 == IF Tracing(tr, paused) THEN Dump(e1, tr, PreEdgeStamp(e1.time)) ELSE e1
      r  == [d1 EXCEPT !.time = RisingTime(@), !.clk = 1]
      e2 == Eval(r)
      d2 == IF Tracing(tr, paused) THEN Flush(Dump(e2, tr, e2.time), tr) ELSE e2
      f  == [d2 EXCEPT !.clk = 0, !.time = FallingTime(@)]
      e3 == Eval(f)
      d3 == IF Tracing(tr, paused) THEN Dump(e3, tr, e3.time) ELSE e3
  IN  sim_clk_tick([d3 EXCEPT !.nticks = @ + 1])

\* reset()
ResetBodyStuckHigh(s, tr, paused) ==
  TickBody([s EXCEPT !.rst = 1], tr, paused)
ResetBody(s, tr, paused) ==
  [TickBody([s EXCEPT !.rst = 1], tr, paused) EXCEPT !.rst = 0]

\* done(): the new m_done and the value returned
DoneNotSticky(md, gf) == [m_done |-> gf, ret |-> gf]
DoneAlwaysLatches(md, gf) == [m_done |-> TRUE, ret |-> TRUE]
DoneResult(md, gf) ==
  IF md THEN [m_done |-> TRUE, ret |-> TRUE]
  ELSE [m_done |-> gf, ret |-> gf]

\* opentrace(): the guard `!m_trace`
MustCreateAlways(tr) == TRUE
MustCreate(tr) == tr = NULL

\* opentrace(): m_paused_trace after the call
PausedAfterOpenNeverCleared(tr, paused) == paused
PausedAfterOpen(tr, paused) == IF MustCreate(tr) THEN FALSE ELSE paused

\* pausetrace(bool): m_paused_trace after the call, which is also returned
PausedAfterPauseOnlySets(paused, flag) == paused \/ flag
PausedAfterPause(paused, flag) == flag

\* closetrace(): m_trace after the call
TraceAfterCloseDangling(tr) == tr
TraceAfterClose(tr) == NULL

\* closetrace(): the heap after the call
HeapAfterClose(h, tr) ==
  IF tr # NULL THEN [h EXCEPT ![tr].isOpen = FALSE, ![tr].freed = TRUE] ELSE h

\* ~TESTB(): the heap after the call (the sink is closed, not deleted)
HeapAfterDestruct(h, tr) ==
  IF tr # NULL THEN [h EXCEPT ![tr].isOpen = FALSE] ELSE h

\* ------------------------------------------------------------- the state
Driver == [time |-> m_time_ps, clk |-> i_clk, rst |-> i_reset, heap |-> heap,
           changed |-> m_changed, ev |-> <<>>, nticks |-> nticks]

\* a call record: the method, its arguments, its return value, and m_trace,
\* m_paused_trace, m_time_ps and m_changed as they were when the method was
\* called
Call(op, name, depth, flag, ret) ==
  [op |-> op, name |-> name, depth |-> depth, flag |-> flag, ret |-> ret,
   tr0 |-> m_trace, paused0 |-> m_paused_trace, time0 |-> m_time_ps,
   changed0 |-> m_changed]

\* a run of n consecutive tick() calls that started at time t0 with s0 samples
\* written
NoRun == [n |-> 0, t0 |-> 0, s0 |-> 0]

RECURSIVE SamplesUpTo(_, _)
SamplesUpTo(h, i) == IF i = 0 THEN 0 ELSE Len(h[i].samples) + SamplesUpTo(h, i - 1)
\* number of samples dumped so far, over all sinks
TotalSamples(h) == SamplesUpTo(h, Len(h))

\* TESTB()
Init ==
  /\ m_core = 1
  /\ m_changed \in BOOLEAN          \* not initialised by the constructor
  /\ m_trace = NULL
  /\ m_done = FALSE
  /\ m_paused_trace = FALSE
  /\ m_time_ps = 0
  /\ i_clk \in {0, 1}               \* set by the model's own constructor
  /\ i_reset \in {0, 1}
  /\ i_other \in {0, 1}
  /\ gotFinish = FALSE
  /\ heap = <<>>
  /\ events = <<>>
  /\ last = [op |-> "TESTB", name |-> "", depth |-> 0, flag |-> FALSE,
             ret |-> FALSE, tr0 |-> NULL, paused0 |-> FALSE, time0 |-> 0,
             changed0 |-> FALSE]
  /\ nticks = 0
  /\ run = NoRun
  /\ everFinish = FALSE
  /\ doneTrue = FALSE

Commit(s) ==
  /\ m_time_ps' = s.time
  /\ i_clk' = s.clk
  /\ i_reset' = s.rst
  /\ heap' = s.heap
  /\ m_changed' = s.changed
  /\ events' = s.ev
  /\ nticks' = s.nticks

tick ==
  /\ m_core # NULL
  /\ nticks < MaxTicks
  /\ Commit(TickBody(Driver, m_trace, m_paused_trace))
  /\ last' = Call("tick", "", 0, FALSE, FALSE)
  /\ run' = IF last.op = "tick" /\ run.n > 0
            THEN [run EXCEPT !.n = @ + 1]
            ELSE [n |-> 1, t0 |-> m_time_ps, s0 |-> TotalSamples(heap)]
  /\ UNCHANGED <<m_core, m_trace, m_done, m_paused_trace, i_other, gotFinish,
                 everFinish, doneTrue>>

reset ==
  /\ m_core # NULL
  /\ nticks < MaxTicks
  /\ Commit(ResetBody(Driver, m_trace, m_paused_trace))
  /\ last' = Call("reset", "", 0, FALSE, FALSE)
  /\ run' = NoRun
  /\ UNCHANGED <<m_core, m_trace, m_done, m_paused_trace, i_other, gotFinish,
                 everFinish, doneTrue>>

\* sim_clk_tick() called by itself: the hook is a public virtual method
call_sim_clk_tick ==
  /\ m_core # NULL
  /\ Commit(sim_clk_tick(Driver))
  /\ last' = Call("sim_clk_tick", "", 0, FALSE, FALSE)
  /\ run' = NoRun
  /\ UNCHANGED <<m_core, m_trace, m_done, m_paused_trace, i_other, gotFinish,
                 everFinish, doneTrue>>

eval ==
  /\ m_core # NULL
  /\ events' = Eval(Driver).ev
  /\ last' = Call("eval", "", 0, FALSE, FALSE)
  /\ run' = NoRun
  /\ UNCHANGED <<m_core, m_changed, m_trace, m_done, m_paused_trace, m_time_ps,
                 i_clk, i_reset, i_other, gotFinish, heap, nticks, everFinish, doneTrue>>

\* the body of opentrace(), called as the method op
OpenTraceCall(op, vcdname, depth) ==
  /\ m_core # NULL
  /\ MustCreate(m_trace) => Len(heap) < MaxOpens
  /\ IF MustCreate(m_trace)
     THEN /\ heap' = Append(heap, NewSink(vcdname, RegisteredDepth))
          /\ m_trace' = Len(heap) + 1
     ELSE UNCHANGED <<heap, m_trace>>
  /\ m_paused_trace' = PausedAfterOpen(m_trace, m_paused_trace)
  /\ events' = <<>>
  /\ last' = Call(op, vcdname, depth, FALSE, FALSE)
  /\ run' = NoRun
  /\ UNCHANGED <<m_core, m_changed, m_done, m_time_ps, i_clk, i_reset, i_other,
                 gotFinish, nticks, everFinish, doneTrue>>

opentrace(vcdname, depth) == OpenTraceCall("opentrace", vcdname, depth)

\* trace(): opentrace() with the default depth
trace(vcdname) == OpenTraceCall("trace", vcdname, DefaultDepth)

\* pausetrace(bool)
pausetrace(flag) ==
  /\ m_core # NULL
  /\ m_paused_trace' = PausedAfterPause(m_paused_trace, flag)
  /\ events' = <<>>
  /\ last' = Call("pausetrace", "", 0, flag,
                  PausedAfterPause(m_paused_trace, flag))
  /\ run' = NoRun
  /\ UNCHANGED <<m_core, m_changed, m_trace, m_done, m_time_ps, i_clk, i_reset,
                 i_other, gotFinish, heap, nticks, everFinish, doneTrue>>

\* pausetrace(void): the value returned
PauseQueryResult(paused) == paused

\* pausetrace(void)
pausetrace_query ==
  /\ m_core # NULL
  /\ events' = <<>>
  /\ last' = Call("pausetrace()", "", 0, FALSE, PauseQueryResult(m_paused_trace))
  /\ run' = NoRun
  /\ UNCHANGED <<m_core, m_changed, m_trace, m_done, m_paused_trace, m_time_ps,
                 i_clk, i_reset, i_other, gotFinish, heap, nticks, everFinish,
                 doneTrue>>

closetrace ==
  /\ m_core # NULL
  /\ heap' = HeapAfterClose(heap, m_trace)
  /\ m_trace' = IF m_trace # NULL THEN TraceAfterClose(m_trace) ELSE m_trace
  /\ events' = <<>>
  /\ last' = Call("closetrace", "", 0, FALSE, FALSE)
  /\ run' = NoRun
  /\ UNCHANGED <<m_core, m_changed, m_done, m_paused_trace, m_time_ps, i_clk,
                 i_reset, i_other, gotFinish, nticks, everFinish, doneTrue>>

done ==
  /\ m_core # NULL
  /\ m_done' = DoneResult(m_done, gotFinish).m_done
  /\ events' = <<>>
  /\ last' = Call("done", "", 0, FALSE, DoneResult(m_done, gotFinish).ret)
  /\ doneTrue' = (doneTrue \/ DoneResult(m_done, gotFinish).ret)
  /\ run' = NoRun
  /\ UNCHANGED <<m_core, m_changed, m_trace, m_paused_trace, m_time_ps, i_clk,
                 i_reset, i_other, gotFinish, heap, nticks, everFinish>>

\* ~TESTB()
destruct ==
  /\ m_core # NULL
  /\ heap' = HeapAfterDestruct(heap, m_trace)
  /\ m_core' = NULL
  /\ events' = <<>>
  /\ last' = Call("~TESTB", "", 0, FALSE, FALSE)
  /\ run' = NoRun
  /\ UNCHANGED <<m_changed, m_trace, m_done, m_paused_trace, m_time_ps, i_clk,
                 i_reset, i_other, gotFinish, nticks, everFinish, doneTrue>>

\* the model raises (or some caller clears) the process-wide termination signal
SetFinish(b) ==
  /\ m_core # NULL
  /\ gotFinish # b
  /\ gotFinish' = b
  /\ everFinish' = (everFinish \/ b)
  /\ UNCHANGED <<m_core, m_changed, m_trace, m_done, m_paused_trace, m_time_ps,
                 i_clk, i_reset, i_other, heap, events, last, nticks, run,
                 doneTrue>>

\* the caller drives another input of the model through the public m_core
SetInput(v) ==
  /\ m_core # NULL
  /\ i_other # v
  /\ i_other' = v
  /\ UNCHANGED <<m_core, m_changed, m_trace, m_done, m_paused_trace, m_time_ps,
                 i_clk, i_reset, gotFinish, heap, events, last, nticks, run,
                 everFinish, doneTrue>>

Next ==
  \/ tick
  \/ reset
  \/ call_sim_clk_tick
  \/ eval
  \/ \E n \in Names, d \in Depths : opentrace(n, d)
  \/ \E n \in Names : trace(n)
  \/ \E b \in BOOLEAN : pausetrace(b)
  \/ pausetrace_query
  \/ closetrace
  \/ done
  \/ destruct
  \/ \E b \in BOOLEAN : SetFinish(b)
  \/ \E v \in {0, 1} : SetInput(v)

Spec == Init /\ [][Next]_vars

\* ------------------------------------------------------------ properties
\* the step is a call of the method op (a call that repeats the previous call
\* in the state that call left behind changes nothing and is a stuttering step)
Called(op) == last' # last /\ last'.op = op

IsWrite(e) == e.k \in {"dump", "flush"}
IsEval(e) == e.k = "eval"
Writes(evs) == SelectSeq(evs, IsWrite)
Evals(evs) == SelectSeq(evs, IsEval)

\* C1: after any sequence of operations the simulated time equals the number
\* of tick() invocations so far (one per reset()) times 27777 ps; every tick
\* strictly increases the time and no operation decreases it.
C1_MonotonicTime ==
  /\ [](m_time_ps = nticks * 27777)
  /\ [][/\ m_time_ps' >= m_time_ps
        /\ (Called("tick") \/ Called("reset")) =>
             (nticks' = nticks + 1 /\ m_time_ps' > m_time_ps)]_vars

C1_Witness ==
  /\ nticks = 3 /\ m_time_ps = 83331
  /\ last.op = "reset"
  /\ m_trace # NULL /\ m_paused_trace

\* C2: with a sink open and not paused, a run of N consecutive tick() calls
\* that starts at time t0 writes exactly 3N samples to the sink; the samples of
\* the j-th tick carry t+6944, t+13888 and t+27777 where t = t0 + (j-1)*27777;
\* the timestamps are strictly increasing and the time ends at t0 + N*27777.
C2_ThreeSamplesPerTick ==
  (m_trace # NULL /\ ~m_paused_trace /\ last.op = "tick" /\ run.n > 0) =>
    LET smp == heap[m_trace].samples
        k   == Len(smp) - 3 * run.n
    IN  /\ TotalSamples(heap) = run.s0 + 3 * run.n
        /\ k >= 0
        /\ \A j \in 1..run.n :
             LET t == run.t0 + (j - 1) * 27777
             IN  /\ smp[k + 3 * (j - 1) + 1] = t + 6944
                 /\ smp[k + 3 * (j - 1) + 2] = t + 13888
                 /\ smp[k + 3 * (j - 1) + 3] = t + 27777
        /\ \A i \in (k + 1)..(Len(smp) - 1) : smp[i] < smp[i + 1]
        /\ m_time_ps = run.t0 + run.n * 27777
        /\ (run.t0 = 0 => m_time_ps = run.n * 27777)

C2_Witness ==
  /\ m_trace # NULL /\ ~m_paused_trace
  /\ last.op = "tick" /\ run.n = 3
  /\ heap[m_trace].samples =
       <<6944, 13888, 27777, 34721, 41665, 55554, 62498, 69442, 83331>>

\* sink i is written (a sample is added or it is flushed) by the step
SinkWritten(i) ==
  IF i <= Len(heap)
  THEN \/ heap'[i].samples # heap[i].samples
       \/ heap'[i].nflushed # heap[i].nflushed
  ELSE \/ heap'[i].samples # <<>>
       \/ heap'[i].nflushed # 0

\* C3: a sample is written or a flush is done only on the sink the driver
\* currently holds, and only while pausedTrace is false: never before the first
\* openTrace, never on a closed sink, never while paused.
C3_WritesOnlyWhenTracing ==
  [][/\ \A i \in 1..Len(heap') :
          SinkWritten(i) =>
            /\ i = m_trace /\ i = m_trace'
            /\ ~m_paused_trace /\ ~m_paused_trace'
            /\ heap[i].isOpen /\ ~heap[i].freed
     /\ Writes(events') # <<>> =>
          (m_trace' # NULL /\ ~m_paused_trace')]_vars

C3_Witness ==
  /\ last.op = "tick"
  /\ m_trace = 2 /\ m_paused_trace
  /\ ~heap[1].isOpen /\ Len(heap[1].samples) = 3
  /\ heap[2].samples = <<>>
  /\ nticks = 3

\* C4: with a sink open and pauseTrace(true) in force, a run of N tick()
\* calls writes no sample and flushes nothing, up to and including the
\* pauseTrace(false) that ends it, and the time advances by exactly
\* N * 27777 ps over the run.
C4_PauseSuppressesWrites ==
  /\ []((m_trace # NULL /\ m_paused_trace /\ run.n > 0) =>
          /\ Writes(events) = <<>>
          /\ TotalSamples(heap) = run.s0
          /\ m_time_ps = run.t0 + run.n * 27777)
  /\ [][(/\ m_trace # NULL /\ m_paused_trace /\ run.n > 0
         /\ Called("pausetrace") /\ ~last'.flag) =>
          /\ heap' = heap
          /\ TotalSamples(heap') = run.s0
          /\ m_time_ps' = run.t0 + run.n * 27777
          /\ ~m_paused_trace']_vars

C4_Witness ==
  /\ m_trace # NULL /\ m_paused_trace
  /\ last.op = "tick" /\ last.paused0 /\ run.n = 2
  /\ run.s0 = 3 /\ run.t0 = 27777
  /\ m_time_ps = 83331

\* C5: once done() has returned true, every later call of done() returns true,
\* whatever the termination signal does afterwards; m_done never goes from true
\* to false.
C5_StickyDone ==
  /\ []((doneTrue /\ last.op = "done") => last.ret)
  /\ [][(m_done => m_done') /\ (doneTrue /\ Called("done") => last'.ret)]_vars

C5_Witness ==
  /\ doneTrue /\ m_done
  /\ last.op = "done" /\ last.ret
  /\ ~gotFinish
  /\ nticks > 0

\* the TRACECLASS objects that are allocated and not deleted
LiveSinks == {i \in 1..Len(heap) : ~heap[i].freed}

\* the driver's own fields and the model's inputs
DriverState == <<m_core, m_changed, m_trace, m_done, m_paused_trace, m_time_ps,
                 i_clk, i_reset, i_other, gotFinish, heap, nticks>>

\* C6: at most one TraceSink exists per driver (the one m_trace points to), and
\* openTrace while a sink is open changes nothing: no new sink, the sink keeps
\* its file name, no other driver state changes.
C6_IdempotentOpen ==
  /\ [](/\ Cardinality(LiveSinks) <= 1
        /\ LiveSinks = IF m_trace = NULL THEN {} ELSE {m_trace})
  /\ [][(Called("opentrace") /\ m_trace # NULL) =>
          /\ DriverState' = DriverState
          /\ heap'[m_trace'].name = heap[m_trace].name]_vars

C6_Witness ==
  /\ last.op = "opentrace" /\ last.tr0 # NULL /\ last.paused0
  /\ m_trace = last.tr0
  /\ heap[m_trace].name = "a" /\ last.name = "b"
  /\ Len(heap) = 1
  /\ Len(heap[m_trace].samples) = 3

\* C7: reset() holds the reset input high for all three model evaluations of
\* exactly one tick() invocation, leaves it low when it returns (so the
\* evaluations of any later tick or eval see it low), and changes no other
\* model input than reset and the clock.
C7_ResetPulse ==
  [][/\ Called("reset") =>
          /\ nticks' = nticks + 1
          /\ Len(Evals(events')) = 3
          /\ \A i \in 1..Len(events') : events'[i].rst = 1
          /\ i_reset' = 0
          /\ i_other' = i_other
     /\ (last.op = "reset" /\ (Called("tick") \/ Called("eval"))) =>
          \A i \in 1..Len(events') : events'[i].rst = 0]_vars

C7_Witness ==
  /\ last.op = "reset"
  /\ i_reset = 0 /\ i_other = 1
  /\ nticks = 2
  /\ Len(Evals(events)) = 3
  /\ \A i \in 1..Len(events) : events[i].rst = 1

\* C8: done() returns false as long as the termination signal has never been
\* raised; it returns true only if m_done was already set or the signal is set
\* at the time of the call, and then m_done is set.
C8_DoneOnlyAfterFinish ==
  /\ [](~everFinish => (~m_done /\ (last.op = "done" => ~last.ret)))
  /\ [][(Called("done") /\ last'.ret) =>
          ((m_done \/ gotFinish) /\ m_done')]_vars

C8_Witness ==
  /\ last.op = "done" /\ ~last.ret
  /\ ~everFinish /\ ~m_done
  /\ nticks = 1 /\ i_reset = 0
  /\ m_trace # NULL

\* C9: closeTrace() with a sink closes and deletes it and leaves no sink: a
\* later tick writes nothing and a later openTrace creates a fresh sink bound
\* to the new name.  Without a sink closeTrace() changes nothing, so closing
\* twice is the same as closing once.
C9_CloseTrace ==
  [][/\ (Called("closetrace") /\ m_trace # NULL) =>
          /\ m_trace' = NULL
          /\ ~heap'[m_trace].isOpen /\ heap'[m_trace].freed
          /\ heap'[m_trace].samples = heap[m_trace].samples
          /\ Len(heap') = Len(heap)
          /\ \A i \in 1..Len(heap) : i # m_trace => heap'[i] = heap[i]
          /\ <<m_core, m_changed, m_done, m_paused_trace, m_time_ps, i_clk,
               i_reset, i_other, gotFinish, nticks>>' =
             <<m_core, m_changed, m_done, m_paused_trace, m_time_ps, i_clk,
               i_reset, i_other, gotFinish, nticks>>
     /\ (Called("closetrace") /\ m_trace = NULL) => DriverState' = DriverState
     /\ (last.op = "closetrace" /\ (Called("tick") \/ Called("reset"))) =>
          (heap' = heap /\ Writes(events') = <<>>)
     /\ (last.op = "closetrace" /\ Called("opentrace")) =>
          /\ m_trace' = Len(heap) + 1
          /\ Len(heap') = Len(heap) + 1
          /\ heap'[m_trace'].name = last'.name
          /\ heap'[m_trace'].isOpen /\ ~heap'[m_trace'].freed
          /\ heap'[m_trace'].samples = <<>>
          /\ \A i \in 1..Len(heap) : heap'[i] = heap[i]]_vars

C9_Witness ==
  /\ last.op = "closetrace" /\ last.tr0 = 1
  /\ m_trace = NULL
  /\ heap[1].freed /\ ~heap[1].isOpen
  /\ Len(heap[1].samples) = 6

\* C10 as stated: after any call of openTrace, pausedTrace is false.
C10_Original == last.op = "opentrace" => ~m_paused_trace

\* C10 (amended): openTrace clears pausedTrace when it creates the sink (no
\* sink existed), and the next tick() then writes its three samples; when a
\* sink already exists openTrace leaves pausedTrace as it was.
C10_OpenClearsPauseOnCreate ==
  [][/\ Called("opentrace") =>
          IF m_trace = NULL
          THEN ~m_paused_trace'
          ELSE m_paused_trace' = m_paused_trace
     /\ (last.op = "opentrace" /\ last.tr0 = NULL /\ Called("tick")) =>
          /\ Len(Writes(events')) = 4
          /\ TotalSamples(heap') = TotalSamples(heap) + 3]_vars

C10_Witness ==
  /\ last.op = "opentrace" /\ last.tr0 = NULL /\ last.paused0
  /\ m_trace = 2 /\ ~m_paused_trace
  /\ heap[2].name = last.name /\ heap[2].isOpen
  /\ Len(heap[1].samples) = 3

\* C11 as stated: a sink created by openTrace(name, depth) is registered with
\* the depth the caller passed, and one created by trace(name) with depth 99.
C11_DepthAsPassed ==
  /\ (last.op = "opentrace" /\ last.tr0 = NULL) =>
       heap[m_trace].depth = last.depth
  /\ (last.op = "trace" /\ last.tr0 = NULL) =>
       heap[m_trace].depth = 99

\* C12: pauseTrace(flag) sets pausedTrace to flag and returns the new value; it
\* neither creates, closes nor rebinds a sink (pauseTrace(false) without a sink
\* opens none).  The query pauseTrace() returns pausedTrace and changes nothing.
C12_PauseTrace ==
  [][/\ Called("pausetrace") =>
          /\ m_paused_trace' = last'.flag
          /\ last'.ret = last'.flag
          /\ m_trace' = m_trace
          /\ heap' = heap
          /\ <<m_core, m_changed, m_done, m_time_ps, i_clk, i_reset, i_other,
               gotFinish, nticks>>' =
             <<m_core, m_changed, m_done, m_time_ps, i_clk, i_reset, i_other,
               gotFinish, nticks>>
     /\ Called("pausetrace()") =>
          /\ last'.ret = m_paused_trace
          /\ DriverState' = DriverState]_vars

C12_Witness ==
  /\ last.op = "pausetrace" /\ ~last.flag /\ ~last.ret
  /\ last.paused0 /\ ~m_paused_trace
  /\ last.tr0 = NULL /\ m_trace = NULL
  /\ heap = <<>>
  /\ nticks = 1

\* C13 as stated: after destruction no sink object remains allocated: a sink
\* that was open is closed and deleted, and the model instance is deleted.
C13_DestructReleasesSink ==
  m_core = NULL =>
    \A i \in 1..Len(heap) : ~heap[i].isOpen /\ heap[i].freed

Kinds(evs) == [i \in 1..Len(evs) |-> evs[i].k]
Clocks(evs) == [i \in 1..Len(evs) |-> evs[i].clk]
Times(evs) == [i \in 1..Len(evs) |-> evs[i].time]

\* the last method was tick() or reset(), and it was tracing
TickDone == last.op \in {"tick", "reset"}
WasTracing == last.tr0 # NULL /\ ~last.paused0

\* The steps of the tick that started at time t, in order, from the second
\* step on: every step at its time, the clock high from the rising-edge
\* evaluation up to the flush and low from the falling-edge evaluation on, each
\* sample stamped as its phase requires.
TickOrder(evs, t, traced) ==
  IF traced
  THEN /\ Kinds(evs) =
            <<"eval", "dump", "eval", "dump", "flush", "eval", "dump", "hook">>
       /\ Times(evs) = <<t, t, t + 13888, t + 13888, t + 13888,
                         t + 27777, t + 27777, t + 27777>>
       /\ SubSeq(Clocks(evs), 3, 8) = <<1, 1, 1, 0, 0, 0>>
       /\ evs[2].clk = evs[1].clk
       /\ evs[2].ts = t + 6944 /\ evs[4].ts = t + 13888 /\ evs[7].ts = t + 27777
  ELSE /\ Kinds(evs) = <<"eval", "eval", "eval", "hook">>
       /\ Times(evs) = <<t, t + 13888, t + 27777, t + 27777>>
       /\ SubSeq(Clocks(evs), 2, 4) = <<1, 0, 0>>

\* C14 as stated: every tick runs its seven steps in the fixed order and the
\* clock is high for the second of its three evaluations only.
C14_Original ==
  TickDone =>
    /\ TickOrder(events, last.time0, WasTracing)
    /\ Clocks(Evals(events)) = <<0, 1, 0>>

\* C14 (amended): every tick runs its seven steps in the fixed order, with
\* exactly three evaluations; the clock is high for the second evaluation and
\* low for the third, and the first evaluation sees the clock as it was when
\* tick() was called.  Each sample is written after the evaluation of its
\* phase and before the clock input changes again.
C14_TickOrder ==
  [][(Called("tick") \/ Called("reset")) =>
       /\ TickOrder(events', m_time_ps, Tracing(m_trace, m_paused_trace))
       /\ Len(Evals(events')) = 3
       /\ Clocks(Evals(events')) = <<i_clk, 1, 0>>]_vars

C14_Witness ==
  /\ last.op = "tick" /\ WasTracing
  /\ nticks = 2 /\ last.time0 = 27777
  /\ Len(events) = 8
  /\ Clocks(Evals(events)) = <<0, 1, 0>>
  /\ events[8].k = "hook" /\ events[8].time = 55554

IsFlush(e) == e.k = "flush"
Flushes(evs) == SelectSeq(evs, IsFlush)

\* C15: a tracing tick flushes the sink exactly once, right after the
\* rising-edge sample and while the clock is still high, so that every sample
\* written up to then is flushed (only the falling-edge sample of that tick is
\* left unflushed); a tick without a sink or while paused flushes nothing.
C15_FlushAfterRisingSample ==
  [][(Called("tick") \/ Called("reset")) =>
       IF Tracing(m_trace, m_paused_trace)
       THEN /\ Len(Flushes(events')) = 1
            /\ events'[4].k = "dump" /\ events'[4].ts = m_time_ps + 13888
            /\ events'[5].k = "flush" /\ events'[5].clk = 1
            /\ events'[5].time = m_time_ps + 13888
            /\ events'[6].k = "eval" /\ events'[6].clk = 0
            /\ heap'[m_trace].nflushed = Len(heap[m_trace].samples) + 2
            /\ Len(heap'[m_trace].samples) = Len(heap[m_trace].samples) + 3
       ELSE /\ Flushes(events') = <<>>
            /\ \A i \in 1..Len(heap) : heap'[i].nflushed = heap[i].nflushed]_vars

C15_Witness ==
  /\ last.op = "tick" /\ WasTracing
  /\ Len(Flushes(events)) = 1 /\ events[5].k = "flush"
  /\ Len(heap[m_trace].samples) = 6
  /\ heap[m_trace].nflushed = 5

IsHook(e) == e.k = "hook"

\* C16: every tick calls the sim_clk_tick hook exactly once, as its last step:
\* after both clock edges (clock low again, time advanced by the whole period)
\* and after all samples of the tick; with the base hook m_changed is false
\* when tick() or reset() returns, whatever it was before.
C16_HookOncePerTick ==
  [][(Called("tick") \/ Called("reset")) =>
       /\ Len(SelectSeq(events', IsHook)) = 1
       /\ events'[Len(events')].k = "hook"
       /\ events'[Len(events')].clk = 0
       /\ events'[Len(events')].time = m_time_ps + 27777
       /\ Len(Evals(events')) = 3
       /\ (Tracing(m_trace, m_paused_trace) =>
             Len(SelectSeq(SubSeq(events', 1, Len(events') - 1),
                           LAMBDA e : e.k = "dump")) = 3)
       /\ ~m_changed']_vars

C16_Witness ==
  /\ last.op = "tick" /\ last.changed0 /\ ~m_changed
  /\ WasTracing
  /\ Len(events) = 8 /\ events[8].k = "hook" /\ events[7].k = "dump"

\* the methods other than tick() and reset()
OtherMethods ==
  {"eval", "opentrace", "trace", "closetrace", "pausetrace", "pausetrace()",
   "done", "sim_clk_tick"}

\* C17: only tick(), directly or inside reset(), changes the simulated time:
\* eval, openTrace, trace, closeTrace, pauseTrace and done (and the hook, when
\* called by itself) leave the time, the clock input and the reset input
\* unchanged and write no sample; eval() does one evaluation of the model and
\* nothing else.
C17_OnlyTickAdvancesTime ==
  [][/\ (\E op \in OtherMethods : Called(op)) =>
          /\ m_time_ps' = m_time_ps
          /\ i_clk' = i_clk
          /\ i_reset' = i_reset
          /\ nticks' = nticks
          /\ Writes(events') = <<>>
          /\ \A i \in 1..Len(heap') : ~SinkWritten(i)
     /\ Called("eval") =>
          /\ Kinds(events') = <<"eval">>
          /\ events'[1].time = m_time_ps
          /\ DriverState' = DriverState
     /\ m_time_ps' # m_time_ps => (Called("tick") \/ Called("reset"))]_vars

C17_Witness ==
  /\ last.op = "eval" /\ Kinds(events) = <<"eval">>
  /\ nticks = 2 /\ m_time_ps = 55554 /\ last.time0 = 55554
  /\ m_trace # NULL /\ ~m_paused_trace
  /\ Len(heap[m_trace].samples) = 6

StrictlyIncreasing(q) == \A j \in 1..(Len(q) - 1) : q[j] < q[j + 1]

\* C18: in every sink the timestamps are strictly increasing, whatever the
\* interleaving of ticks, resets, pauses, evals and done calls while it is
\* open: the pre-edge stamp t+6944 of a tick lies strictly between the time t
\* of the previous falling edge and the rising-edge stamp t+13888.
C18_SinkTimestampsIncrease ==
  /\ \A i \in 1..Len(heap) : StrictlyIncreasing(heap[i].samples)
  /\ (TickDone /\ WasTracing) =>
       LET smp == heap[last.tr0].samples
           n   == Len(smp)
       IN  /\ n >= 3
           /\ smp[n - 2] = last.time0 + 6944
           /\ last.time0 < smp[n - 2]
           /\ smp[n - 2] < smp[n - 1]
           /\ smp[n - 1] = last.time0 + 13888
           /\ (n > 3 => smp[n - 3] <= last.time0)

C18_Witness ==
  /\ last.op = "reset" /\ WasTracing
  /\ heap[m_trace].samples = <<6944, 13888, 27777, 62498, 69442, 83331>>
  /\ nticks = 3

\* C19: the clock input is low whenever tick() or reset() has returned, so
\* after the first tick it is low between the driver's operations, and the
\* first evaluation of every later tick and every standalone eval() see it low;
\* inside such a tick the clock is high exactly from the rising-edge step until
\* the falling-edge step.
C19_ClockLowBetweenTicks ==
  /\ [](nticks > 0 => i_clk = 0)
  /\ [][/\ (Called("tick") \/ Called("reset")) =>
             /\ i_clk' = 0
             /\ nticks > 0 =>
                  \A i \in 1..Len(events') :
                    (events'[i].clk = 1) <=> (events'[i].time = m_time_ps + 13888)
        /\ (nticks > 0 /\ (Called("tick") \/ Called("reset") \/ Called("eval"))) =>
             events'[1].k = "eval" /\ events'[1].clk = 0]_vars

C19_Witness ==
  /\ last.op = "eval" /\ events[1].clk = 0
  /\ nticks = 2 /\ i_clk = 0
  /\ i_reset = 0

====
